---- MODULE Spec2Model ----
(***************************************************************************)
(* Model of server.py: the module-level port scan (dual-stack first, IPv4  *)
(* fallback), the NoPortAvailable exit, and the __main__ block (candidate  *)
(* URLs, --print-only exit, serve-time bind with fallback, serve_forever,  *)
(* KeyboardInterrupt), and get_local_ip.                                   *)
(*                                                                         *)
(* The host is part of the state: whether an IPv6 stack exists, which      *)
(* ports other processes hold, at which port bind fails with an OS error   *)
(* that is neither EADDRINUSE nor a missing address family, and what the   *)
(* interface query `hostname -I` gives.                                    *)
(***************************************************************************)
EXTENDS Integers, Sequences, FiniteSets

\* ---------------------------------------------------------------- bounds
\* PORT is drawn from {MAX_PORT - Far} \cup (MAX_PORT - Near)..(MAX_PORT + Above)
Far == 102
Near == 1
Above == 1
\* the lowest free port of the host is drawn from PORT..PORT + MaxHeld
MaxHeld == 104
\* the port whose bind fails with another OS error is drawn from PORT..PORT + ErrWindow
ErrWindow == 1
\* what `hostname -I` prints is drawn from the texts of at most MaxOut characters
MaxOut == 4

\* ------------------------------------------------------ program constants
MAX_PORT == 8100
None == -1

Hosts == {"0.0.0.0", "127.0.0.2"}

VARIABLES
    PORT,            \* args.port
    HOST,            \* args.host
    print_only,      \* args.print_only
    dual_avail,      \* host: an IPv6 stack exists, AF_INET6 sockets can be made
    first_free,      \* host: ports below it are held by other listeners, ports from it on are not
    dual_fail_at,    \* host without dual-stack: the call of DualStackServer.__init__ that fails
    err_port,        \* host: the port at which bind fails with another OS error, or None
    query,           \* host: what os.popen("hostname -I").read() gives: raises, or a text
    taken,           \* host: what another process bound at selected_port after the scan released it
    pc,              \* position of the script
    port,            \* the loop variable of the running for loop (next value to try)
    selected_port,
    use_dual_stack,  \* "unset" until assigned, then "True" or "False"
    sockets,         \* sockets this process holds bound
    unclosed,        \* sockets this process made and never closed, alive with the exception of their probe
    probes,          \* the probes made so far, in order: [family, host, port, result]
    httpd,           \* the listening socket of the serve phase, or NoSocket
    local_ip,        \* what get_local_ip() did at line 86: [exc, value], Unset before
    stdout,          \* what the script has printed, in order
    exit_code,       \* None while running
    trace            \* the program states passed through, in order

vars == <<PORT, HOST, print_only, dual_avail, dual_fail_at, first_free, err_port, query, taken,
          pc, port, selected_port, use_dual_stack, sockets, unclosed, probes, httpd, local_ip,
          stdout, exit_code, trace>>

config == <<PORT, HOST, print_only>>
host == <<dual_avail, dual_fail_at, first_free, err_port, query>>

\* the dual-stack binds made at the configured host
WildcardFromHost == HOST

\* lines 55 and 105: the dual-stack binds are made at the IPv6 wildcard address
Wildcard6 == "::"

NoSocket == [family |-> "none", host |-> "", port |-> None]

Socket(family, h, p) == [family |-> family, host |-> h, port |-> p]

PortChoices == {MAX_PORT - Far} \cup ((MAX_PORT - Near)..(MAX_PORT + Above))

\* ------------------------------------------------------------------ host
\* p is held by another listener (bind answers EADDRINUSE)
Held(p) == p < first_free /\ p # err_port

\* p is free: nobody holds it and bind raises nothing else
Free(p) == p >= first_free /\ p # err_port

\* What bind answers at port p during the scan, as the errno classes the
\* except clauses tell apart: "ok", "inuse" (errno.EADDRINUSE) and the rest,
\* split into "unavail" (no IPv6 stack) and "other" (EACCES, EADDRNOTAVAIL...).
BindResult(family, p) ==
    IF family = "dual" /\ ~dual_avail THEN "unavail"
    ELSE IF p = err_port THEN "other"
    ELSE IF p < first_free THEN "inuse"
    ELSE "ok"

\* What bind answers at selected_port in the serve phase: as in the scan,
\* unless another process took the port in between.
ServeBindResult(family) ==
    IF family = "dual" /\ ~dual_avail THEN "unavail"
    ELSE IF taken = "all" THEN "inuse"
    ELSE IF taken = "v6only" /\ family = "dual" THEN "inuse"
    ELSE "ok"

\* ---------------------------------------------------------- get_local_ip
\* the characters `hostname -I` prints: blanks, line ends, address characters
Chars == {" ", "\n", "7"}

IsSpace(c) == c \in {" ", "\n"}

\* the texts of at most n characters
Texts(n) == UNION {[1..k -> Chars] : k \in 0..n}

\* os.popen(...).read() raises, or gives a text
Raised == [raised |-> TRUE, text |-> << >>]

Text(t) == [raised |-> FALSE, text |-> t]

Queries(n) == {Raised} \cup {Text(t) : t \in Texts(n)}

\* the outcomes the runs of the whole script are checked with
MainQueries == {Raised, Text(<< >>), Text(<<"7">>)}

Loopback == <<"1", "2", "7", ".", "0", ".", "0", ".", "1">>

Unset == [exc |-> "unset", value |-> << >>]

Returned(v) == [exc |-> "none", value |-> v]

Raise(x) == [exc |-> x, value |-> << >>]

RECURSIVE LStrip(_)
LStrip(s) == IF s = << >> \/ ~IsSpace(Head(s)) THEN s ELSE LStrip(Tail(s))

RECURSIVE RStrip(_)
RStrip(s) ==
    IF s = << >> \/ ~IsSpace(s[Len(s)]) THEN s ELSE RStrip(SubSeq(s, 1, Len(s) - 1))

\* str.strip()
Strip(s) == RStrip(LStrip(s))

\* the length of the run of non-blank characters s starts with
RECURSIVE WordLen(_)
WordLen(s) == IF s = << >> \/ IsSpace(Head(s)) THEN 0 ELSE 1 + WordLen(Tail(s))

\* str.split(): the maximal runs of non-blank characters, in order
RECURSIVE Split(_)
Split(s) ==
    LET t == LStrip(s) IN
    IF t = << >> THEN << >>
    ELSE <<SubSeq(t, 1, WordLen(t))>> \o Split(SubSeq(t, WordLen(t) + 1, Len(t)))

\* lines 10-11, the try suite: what it returns or the exception it raises
TryBody(q) ==
    IF q.raised THEN Raise("OSError")
    ELSE LET words == Split(Strip(q.text)) IN
         IF words = << >> THEN Raise("IndexError")
         ELSE Returned(IF words[1] # << >> THEN words[1] ELSE Loopback)

\* lines 8-13 with `except OSError:` for the bare except
get_local_ip_except_oserror(q) ==
    IF TryBody(q).exc = "OSError" THEN Returned(Loopback) ELSE TryBody(q)

\* lines 8-13: the bare except turns every exception into the loopback address
get_local_ip(q) ==
    IF TryBody(q).exc # "none" THEN Returned(Loopback) ELSE TryBody(q)

\* ------------------------------------------------------------- the scan
\* range(PORT, MAX_PORT + 2): the scan runs one port past MAX_PORT
InRangeOffByOne(p) == p >= PORT /\ p <= MAX_PORT + 1

\* range(PORT, MAX_PORT + 1)
InRange(p) == p >= PORT /\ p <= MAX_PORT

\* the IPv4 loop goes on from the port after the one the dual-stack probe failed at
FallbackStartAfter == port + 1

\* line 67: range(PORT, MAX_PORT + 1) starts the IPv4 loop at PORT again
FallbackStart == PORT

\* the socket object TCPServer.__init__ made at line 37: open, bound nowhere
Unbound6 == [family |-> "dual", host |-> "", port |-> None]

\* lines 37-39: what a failed DualStackServer.__init__ leaves open. A failing
\* socket.socket() made nothing; a failing bind is followed by server_close()
\* (lines 44-46); a failing setsockopt (line 39, outside the try) leaves the
\* socket of line 37 open, referenced by the traceback of the OSError.
LeftOpen(r) == IF r = "unavail" /\ dual_fail_at = "setsockopt" THEN {Unbound6} ELSE {}

\* the except clause of line 60 is left and its exception dropped: the
\* sockets it kept alive are closed when they are collected, at once under
\* reference counting, later or never under another collector
Dropped(open) == {{}, open}

Probe(family, h, p, r) == [family |-> family, host |-> h, port |-> p, result |-> r]

Init ==
    /\ PORT \in PortChoices
    /\ HOST \in Hosts
    /\ print_only \in BOOLEAN
    /\ dual_avail \in BOOLEAN
    /\ dual_fail_at \in (IF dual_avail THEN {"none"} ELSE {"socket", "setsockopt"})
    /\ first_free \in PORT..(PORT + MaxHeld)
    /\ err_port \in {None} \cup (PORT..(PORT + ErrWindow))
    /\ query \in MainQueries
    /\ taken = "none"
    /\ pc = "start"
    /\ port = None
    /\ selected_port = None
    /\ use_dual_stack = "unset"
    /\ sockets = {}
    /\ unclosed = {}
    /\ probes = << >>
    /\ httpd = NoSocket
    /\ local_ip = Unset
    /\ stdout = << >>
    /\ exit_code = None
    /\ trace = <<"Idle">>

\* lines 49-53: MAX_PORT, selected_port = None, the dual-stack loop starts
StartScan ==
    /\ pc = "start"
    /\ pc' = "dual_loop"
    /\ port' = PORT
    /\ selected_port' = None
    /\ trace' = Append(trace, "Probing")
    /\ UNCHANGED <<config, host, local_ip, unclosed, taken, use_dual_stack, sockets, probes, httpd, stdout, exit_code>>

\* line 55 and the handler of lines 60-65: one iteration of the dual-stack loop
\* up to the with body, or to the continue, or to the start of the IPv4 loop
DualProbe ==
    /\ pc = "dual_loop"
    /\ InRange(port)
    /\ LET r == BindResult("dual", port) IN
       /\ probes' = Append(probes, Probe("dual", Wildcard6, port, r))
       /\ IF r = "ok"
          THEN /\ sockets' = sockets \cup {Socket("dual", Wildcard6, port)}
               /\ pc' = "dual_body"
               /\ UNCHANGED <<port, use_dual_stack, unclosed>>
          ELSE IF r = "inuse"
          THEN /\ port' = port + 1
               /\ UNCHANGED <<pc, sockets, use_dual_stack, unclosed>>
          ELSE IF selected_port = None /\ port = PORT
          THEN /\ use_dual_stack' = "False"
               /\ pc' = "ipv4_loop"
               /\ port' = FallbackStart
               /\ unclosed' = unclosed \cup LeftOpen(r)
               /\ UNCHANGED sockets
          ELSE /\ port' = port + 1
               /\ unclosed' \in Dropped(unclosed \cup LeftOpen(r))
               /\ UNCHANGED <<pc, sockets, use_dual_stack>>
    /\ UNCHANGED <<config, host, local_ip, taken, selected_port, httpd, stdout, exit_code, trace>>

\* lines 56-59 without line 58: the flag is not assigned
DualBodyNoFlag ==
    /\ pc = "dual_body"
    /\ selected_port' = port
    /\ sockets' = sockets \ {Socket("dual", Wildcard6, port)}
    /\ pc' = "check"
    /\ UNCHANGED <<config, host, local_ip, unclosed, taken, port, use_dual_stack, probes, httpd,
                   stdout, exit_code, trace>>

\* lines 56-59: the with body of a successful dual-stack probe
DualBody ==
    /\ pc = "dual_body"
    /\ selected_port' = port
    /\ sockets' = sockets \ {Socket("dual", Wildcard6, port)}
    /\ use_dual_stack' = "True"
    /\ pc' = "check"
    /\ UNCHANGED <<config, host, local_ip, unclosed, taken, port, probes, httpd, stdout, exit_code, trace>>

\* line 53: the dual-stack range is exhausted
DualExhausted ==
    /\ pc = "dual_loop"
    /\ ~InRange(port)
    /\ pc' = "check"
    /\ UNCHANGED <<config, host, local_ip, unclosed, taken, port, selected_port, use_dual_stack, sockets, probes,
                   httpd, stdout, exit_code, trace>>

\* lines 67-69 and 73-77: one iteration of the IPv4 loop
IPv4Probe ==
    /\ pc = "ipv4_loop"
    /\ InRange(port)
    /\ LET r == BindResult("ipv4", port) IN
       /\ probes' = Append(probes, Probe("ipv4", HOST, port, r))
       /\ IF r = "ok"
          THEN /\ sockets' = sockets \cup {Socket("ipv4", HOST, port)}
               /\ pc' = "ipv4_body"
               /\ UNCHANGED <<port, exit_code, trace, stdout>>
          ELSE IF r = "inuse"
          THEN /\ port' = port + 1
               /\ UNCHANGED <<pc, sockets, exit_code, trace, stdout>>
          ELSE \* raise: nothing catches it, the interpreter prints the traceback
               /\ pc' = "done"
               /\ exit_code' = 1
               /\ trace' = Append(trace, "Fatal")
               /\ stdout' = Append(stdout, <<"traceback", r>>)
               /\ UNCHANGED <<port, sockets>>
    /\ UNCHANGED <<config, host, local_ip, unclosed, taken, selected_port, use_dual_stack, httpd>>

\* lines 70-72 and 78: the with body of a successful IPv4 probe, both breaks
IPv4Body ==
    /\ pc = "ipv4_body"
    /\ selected_port' = port
    /\ sockets' = sockets \ {Socket("ipv4", HOST, port)}
    /\ pc' = "check"
    /\ unclosed' \in Dropped(unclosed)
    /\ UNCHANGED <<config, host, local_ip, taken, port, use_dual_stack, probes, httpd, stdout,
                   exit_code, trace>>

\* line 78 missing: after the exhausted IPv4 range the dual-stack loop goes on
IPv4ExhaustedNoBreak ==
    /\ pc = "ipv4_loop"
    /\ ~InRange(port)
    /\ pc' = "dual_loop"
    /\ unclosed' \in Dropped(unclosed)
    /\ port' = PORT + 1
    /\ UNCHANGED <<config, host, local_ip, taken, selected_port, use_dual_stack, sockets, probes,
                   httpd, stdout, exit_code, trace>>

\* lines 67 and 78: the IPv4 range is exhausted, the outer loop is left
IPv4Exhausted ==
    /\ pc = "ipv4_loop"
    /\ ~InRange(port)
    /\ pc' = "check"
    /\ unclosed' \in Dropped(unclosed)
    /\ UNCHANGED <<config, host, local_ip, taken, port, selected_port, use_dual_stack, sockets, probes,
                   httpd, stdout, exit_code, trace>>

\* lines 80-82 without the exit: the script goes on with selected_port = None
CheckSelectedNoExit ==
    /\ pc = "check"
    /\ pc' = "main"
    /\ UNCHANGED <<config, host, local_ip, unclosed, taken, port, selected_port, use_dual_stack, sockets, probes,
                   httpd, stdout, exit_code, trace>>

\* lines 80-82
CheckSelected ==
    /\ pc = "check"
    /\ IF selected_port = None
       THEN /\ stdout' = Append(stdout, <<"no_ports", PORT, MAX_PORT>>)
            /\ exit_code' = 1
            /\ pc' = "done"
            /\ trace' = Append(trace, "Failed")
       ELSE /\ pc' = "main"
            /\ UNCHANGED <<stdout, exit_code, trace>>
    /\ UNCHANGED <<config, host, local_ip, unclosed, taken, port, selected_port, use_dual_stack, sockets, probes, httpd>>

\* between the probe's release and the serve-time bind another process may
\* bind the selected port: on every family, or as an IPv6-only listener
OtherProcessBinds ==
    /\ pc = "main"
    /\ taken = "none"
    /\ taken' \in {"all", "v6only"}
    /\ UNCHANGED <<config, host, local_ip, unclosed, pc, port, selected_port, use_dual_stack, sockets, probes,
                   httpd, stdout, exit_code, trace>>

\* lines 86-101: the candidate URLs, then the --print-only exit
PrintUrls ==
    /\ pc = "main"
    /\ local_ip' = get_local_ip(query)
    /\ stdout' = Append(stdout, <<"urls", PORT>>)
    /\ IF print_only
       THEN /\ exit_code' = 0
            /\ pc' = "done"
            /\ trace' = Append(trace, "PrintOnlyExit")
       ELSE /\ pc' = "bind"
            /\ UNCHANGED <<exit_code, trace>>
    /\ UNCHANGED <<config, host, unclosed, taken, port, selected_port, use_dual_stack, sockets, probes, httpd>>

\* the serve-time bind made at the preferred port instead of the selected one
ServePortPreferred == PORT

\* lines 105, 108, 112: the port of the serve-time bind is selected_port
ServePort == selected_port

\* lines 103-109: the bind of the serve phase under the recorded strategy
ServeBind ==
    /\ pc = "bind"
    /\ LET family == IF use_dual_stack = "True" THEN "dual" ELSE "ipv4"
           h == IF use_dual_stack = "True" THEN Wildcard6 ELSE HOST
       IN IF ServeBindResult(family) = "ok"
          THEN /\ httpd' = Socket(family, h, ServePort)
               /\ sockets' = sockets \cup {Socket(family, h, ServePort)}
               /\ stdout' = Append(stdout, <<"serving", family, h, selected_port>>)
               /\ trace' = Append(trace, "Bound")
               /\ pc' = "serve"
          ELSE /\ pc' = "bind_fallback"
               /\ UNCHANGED <<httpd, sockets, stdout, trace>>
    /\ UNCHANGED <<config, host, local_ip, unclosed, taken, port, selected_port, use_dual_stack, probes, exit_code>>

\* lines 110-113: the except branch binds IPv4 on HOST; its own failure is not caught
ServeBindFallback ==
    /\ pc = "bind_fallback"
    /\ IF ServeBindResult("ipv4") = "ok"
       THEN /\ httpd' = Socket("ipv4", HOST, ServePort)
            /\ sockets' = sockets \cup {Socket("ipv4", HOST, ServePort)}
            /\ stdout' = Append(stdout, <<"serving", "ipv4", HOST, selected_port>>)
            /\ trace' = Append(trace, "Bound")
            /\ pc' = "serve"
            /\ UNCHANGED exit_code
       ELSE /\ pc' = "done"
            /\ exit_code' = 1
            /\ trace' = Append(trace, "Fatal")
            /\ stdout' = Append(stdout, <<"traceback", ServeBindResult("ipv4")>>)
            /\ UNCHANGED <<httpd, sockets>>
    /\ UNCHANGED <<config, host, local_ip, unclosed, taken, port, selected_port, use_dual_stack, probes>>

\* lines 115-116: serve_forever is entered
ServeForever ==
    /\ pc = "serve"
    /\ pc' = "serving"
    /\ trace' = Append(trace, "Serving")
    /\ UNCHANGED <<config, host, local_ip, unclosed, taken, port, selected_port, use_dual_stack, sockets, probes,
                   httpd, stdout, exit_code>>

\* lines 117-118: KeyboardInterrupt while serving; the handler prints and the
\* script ends at its last line. httpd was made outside any with statement
\* and server_close() is never called on it: the socket stays as it is, and
\* only the teardown of the process, which is no statement of the script,
\* releases it.
Interrupt ==
    /\ pc = "serving"
    /\ stdout' = Append(stdout, <<"stopped">>)
    /\ pc' = "done"
    /\ exit_code' = 0
    /\ trace' = Append(trace, "Stopped")
    /\ UNCHANGED <<config, host, local_ip, unclosed, taken, port, selected_port, use_dual_stack, sockets, probes, httpd>>

Next ==
    \/ StartScan
    \/ DualProbe
    \/ DualBody
    \/ DualExhausted
    \/ IPv4Probe
    \/ IPv4Body
    \/ IPv4Exhausted
    \/ CheckSelected
    \/ OtherProcessBinds
    \/ PrintUrls
    \/ ServeBind
    \/ ServeBindFallback
    \/ ServeForever
    \/ Interrupt

Spec == Init /\ [][Next]_vars

\* a statement of the module-level scan, lines 49-78
ScanStep ==
    \/ StartScan
    \/ DualProbe
    \/ DualBody
    \/ DualExhausted
    \/ IPv4Probe
    \/ IPv4Body
    \/ IPv4Exhausted

\* the interpreter runs the next statement of the scan whenever there is one
FairSpec == Spec /\ WF_vars(ScanStep)

\* ------------------------------------------------- get_local_ip on its own
\* every outcome of the interface query up to MaxOut characters, before the scan
InitIp ==
    /\ PORT = MAX_PORT
    /\ HOST = "0.0.0.0"
    /\ print_only = FALSE
    /\ dual_avail = TRUE
    /\ dual_fail_at = "none"
    /\ first_free = MAX_PORT
    /\ err_port = None
    /\ query \in Queries(MaxOut)
    /\ taken = "none"
    /\ pc = "start"
    /\ port = None
    /\ selected_port = None
    /\ use_dual_stack = "unset"
    /\ sockets = {}
    /\ unclosed = {}
    /\ probes = << >>
    /\ httpd = NoSocket
    /\ local_ip = Unset
    /\ stdout = << >>
    /\ exit_code = None
    /\ trace = <<"Idle">>

\* line 86: local_ip = get_local_ip()
CallGetLocalIp ==
    /\ local_ip = Unset
    /\ local_ip' = get_local_ip(query)
    /\ UNCHANGED <<config, host, unclosed, taken, pc, port, selected_port, use_dual_stack, sockets,
                   probes, httpd, stdout, exit_code, trace>>

SpecIp == InitIp /\ [][CallGetLocalIp]_vars

\* ------------------------------------------------------------- vocabulary
\* the module-level scan is over: line 80 is reached or passed, or the script died
ScanEnded == pc \in {"check", "main", "bind", "bind_fallback", "serve", "serving", "done"}

\* lines 103-116 are being executed
InServePhase == pc \in {"bind", "bind_fallback", "serve", "serving"}

Last(s) == s[Len(s)]

\* the family of the strategy the scan recorded
ChosenFamily == IF use_dual_stack = "True" THEN "dual" ELSE "ipv4"

\* the ports probed under a family, in probe order
ProbedPorts(family) ==
    LET F(i) == probes[i].family = family
        RECURSIVE Walk(_)
        Walk(i) == IF i > Len(probes) THEN << >>
                   ELSE IF F(i) THEN <<probes[i].port>> \o Walk(i + 1)
                   ELSE Walk(i + 1)
    IN Walk(1)

TypeOK ==
    /\ PORT \in PortChoices
    /\ pc \in {"start", "dual_loop", "dual_body", "ipv4_loop", "ipv4_body", "check", "main",
               "bind", "bind_fallback", "serve", "serving", "done"}
    /\ use_dual_stack \in {"unset", "True", "False"}
    /\ exit_code \in {None, 0, 1}

\* ------------------------------------------------------------------- C1
\* C1: whenever the serve phase is reached the selected port lies in
\* [PORT, MAX_PORT] inclusive (a selected port is never outside that range);
\* a run that ended its scan without a selected port has terminated with exit
\* code 1 and a reported failure, and never entered the serve phase.
C1_SelectedPortInRange ==
    /\ selected_port # None => (PORT <= selected_port /\ selected_port <= MAX_PORT)
    /\ InServePhase => selected_port # None
    /\ \A i \in 1..Len(trace) : trace[i] \in {"Bound", "Serving"} => selected_port # None
    /\ (ScanEnded /\ pc # "check" /\ selected_port = None) =>
          /\ pc = "done"
          /\ exit_code = 1
          /\ Last(stdout)[1] \in {"no_ports", "traceback"}
          /\ Last(trace) \in {"Failed", "Fatal"}
          /\ httpd = NoSocket

\* the serve phase is reached on the last port of the range, after held ports
C1_Witness ==
    /\ pc = "serving"
    /\ selected_port = MAX_PORT
    /\ PORT < MAX_PORT

\* ------------------------------------------------------------------- C2
\* C2: if no port in [PORT, PORT + 100] is held by another process (and bind
\* raises no other error there) and dual-stack is available, the scan ends
\* with selected_port = PORT under the dual-stack strategy.
C2_FreeRangeSelectsPreferred ==
    (ScanEnded /\ dual_avail /\ \A p \in PORT..(PORT + 100) : Free(p))
        => (selected_port = PORT /\ use_dual_stack = "True")

\* ------------------------------------------------------------------- C3
\* C3: the selected port is the lowest free port under the chosen strategy:
\* it is not below PORT, and every port from PORT up to it was probed under
\* that strategy, in ascending order, and answered address-in-use.
C3_LowestFreeSelected ==
    selected_port # None =>
        LET ps == ProbedPorts(ChosenFamily) IN
        /\ selected_port >= PORT
        /\ \A i \in 1..Len(ps) : ps[i] = PORT + i - 1
        /\ \A p \in PORT..(selected_port - 1) :
              \E i \in 1..Len(probes) :
                  /\ probes[i].family = ChosenFamily
                  /\ probes[i].port = p
                  /\ probes[i].result = "inuse"

\* ------------------------------------------------------------------- C4
\* C4: if every port in [PORT, PORT + 100] is held by other listeners, the
\* scan fails with NoPortAvailable: the script never gets past line 82, it
\* exits with code 1, and the range it prints is the range it probed.
C4_HeldRangeFails ==
    (\A p \in PORT..(PORT + 100) : Held(p)) =>
        /\ selected_port = None
        /\ pc \notin {"main", "bind", "bind_fallback", "serve", "serving"}
        /\ pc = "done" =>
              /\ exit_code = 1
              /\ Last(trace) = "Failed"
              /\ Last(stdout)[1] = "no_ports"
              /\ \A p \in Last(stdout)[2]..Last(stdout)[3] :
                    \E i \in 1..Len(probes) : probes[i].port = p
              /\ \A i \in 1..Len(probes) :
                    probes[i].port \in Last(stdout)[2]..Last(stdout)[3]

\* ------------------------------------------------------------------- C5
\* the lowest port of [PORT, MAX_PORT] that is free
HasFree == \E p \in PORT..MAX_PORT : Free(p)

LowestFree == CHOOSE p \in PORT..MAX_PORT : Free(p) /\ \A q \in PORT..(p - 1) : ~Free(q)

\* C5 as stated: when dual-stack is unavailable and some port of
\* [PORT, MAX_PORT] is free for IPv4, the scan ends with the IPv4-only
\* strategy and the lowest free port selected.
C5_Original ==
    (ScanEnded /\ ~dual_avail /\ HasFree)
        => (use_dual_stack = "False" /\ selected_port = LowestFree)

\* C5 as amended: when dual-stack is unavailable, some port of [PORT, MAX_PORT]
\* is free for IPv4, and every port below the lowest free one answers
\* address-in-use (none fails with another OS error), the scan ends with the
\* IPv4-only strategy and the lowest free port selected.
C5_IPv4Fallback ==
    (ScanEnded /\ ~dual_avail /\ HasFree /\ \A q \in PORT..(LowestFree - 1) : Held(q))
        => (use_dual_stack = "False" /\ selected_port = LowestFree)

\* the fallback skipped held ports and selected a port above PORT
C5_Witness ==
    /\ ScanEnded
    /\ ~dual_avail
    /\ HasFree
    /\ use_dual_stack = "False"
    /\ selected_port = LowestFree
    /\ selected_port > PORT
    /\ Len(probes) = selected_port - PORT + 2

\* ------------------------------------------------------------------- C6
\* C6: a probe whose bind error is neither address-in-use nor
\* family-unavailable is the last probe of the run and ends it: no port is
\* probed after it, no fallback strategy starts, the script ends non-zero
\* without reaching the serve phase.
C6_OtherErrorIsFatal ==
    \A i \in 1..Len(probes) :
        probes[i].result = "other" =>
            /\ i = Len(probes)
            /\ pc = "done"
            /\ exit_code = 1
            /\ Last(trace) = "Fatal"
            /\ httpd = NoSocket

\* ------------------------------------------------------------------- C7
\* C7: the probes of a run are either dual-stack probes only, or exactly one
\* dual-stack probe, at PORT and failing with family-unavailable, followed
\* only by IPv4 probes at PORT, PORT + 1, ... in that order.
C7_StrategyDecidedOnce ==
    \/ \A i \in 1..Len(probes) : probes[i].family = "dual"
    \/ /\ probes[1].family = "dual"
       /\ probes[1].port = PORT
       /\ probes[1].result = "unavail"
       /\ \A i \in 2..Len(probes) :
             /\ probes[i].family = "ipv4"
             /\ probes[i].port = PORT + i - 2

\* ------------------------------------------------------------------- C8
\* C8: a --print-only run ends with exit code 0, the candidate URLs printed,
\* whatever PORT is and whichever ports other listeners hold (stated here for
\* the hosts whose binds fail with address-in-use only).
C8_PrintOnlyExitsZero ==
    (print_only /\ pc = "done" /\ err_port = None) =>
        /\ exit_code = 0
        /\ Last(stdout)[1] = "urls"

\* ------------------------------------------------------------------- C9
\* C9: in a --print-only run no socket is bound at any point, not even a
\* probe socket.
C9_PrintOnlyBindsNothing ==
    print_only => sockets = {}

\* ------------------------------------------------------------------ C10
IsPrefix(s, t) == Len(s) <= Len(t) /\ \A i \in 1..Len(s) : s[i] = t[i]

MainPath == <<"Idle", "Probing", "Bound", "Serving", "Stopped">>

\* a probe succeeded at the selected port under the recorded strategy
SuccessfulProbe ==
    \E i \in 1..Len(probes) :
        /\ probes[i].result = "ok"
        /\ probes[i].port = selected_port
        /\ probes[i].family = ChosenFamily

C12_StoppedClosesSocket ==
    Last(trace) = "Stopped" =>
        /\ Last(stdout) = <<"stopped">>
        /\ httpd \notin sockets
        /\ sockets = {}

NoAddress(q) == q.raised \/ \A i \in 1..Len(q.text) : IsSpace(q.text[i])

\* C14: get_local_ip never raises: for every outcome of the interface query
\* it returns a non-empty value, and it returns exactly 127.0.0.1 whenever
\* the query yields no address.
C14_GetLocalIpNeverRaises ==
    local_ip # Unset =>
        /\ local_ip.exc = "none"
        /\ local_ip.value # << >>
        /\ \A i \in 1..Len(local_ip.value) : ~IsSpace(local_ip.value[i])
        /\ NoAddress(query) => local_ip.value = <<"1", "2", "7", ".", "0", ".", "0", ".", "1">>
        /\ ~NoAddress(query) =>
              \E i \in 1..Len(query.text) :
                  /\ \A j \in 1..(i - 1) : IsSpace(query.text[j])
                  /\ local_ip.value = SubSeq(query.text, i, i + Len(local_ip.value) - 1)
                  /\ i + Len(local_ip.value) - 1 = Len(query.text)
                        \/ IsSpace(query.text[i + Len(local_ip.value)])

\* get_local_ip returned the loopback address for a text of blanks only
C14_Witness ==
    /\ local_ip = [exc |-> "none", value |-> <<"1", "2", "7", ".", "0", ".", "0", ".", "1">>]
    /\ ~query.raised
    /\ Len(query.text) = 2
    /\ NoAddress(query)

\* ------------------------------------------------------------------ C15
\* C15: in every run that reaches Serving, the port of the printed candidate
\* URLs is the port the server listens on, and the confirmation line names
\* the family, host and port of the socket that is listening.
C15_PrintedMatchesListener ==
    pc = "serving" =>
        /\ \E i \in 1..Len(stdout) : stdout[i][1] = "urls"
        /\ \A i \in 1..Len(stdout) : stdout[i][1] = "urls" => stdout[i][2] = httpd.port
        /\ Last(stdout) = <<"serving", httpd.family, httpd.host, httpd.port>>
        /\ httpd \in sockets

\* ------------------------------------------------------------------ C16
\* each port of [PORT, MAX_PORT] is probed at most once per family: the
\* probes of a family are made at PORT, PORT + 1, ... without a repeat, and
\* the family changes at most once, from dual-stack to IPv4
ProbedOncePerFamily ==
    /\ \A i \in 1..Len(probes) : PORT <= probes[i].port /\ probes[i].port <= MAX_PORT
    /\ \A i \in 2..Len(probes) :
          IF probes[i].family = probes[i - 1].family
          THEN probes[i].port = probes[i - 1].port + 1
          ELSE i = 2 /\ probes[1].family = "dual" /\ probes[2].family = "ipv4"

\* how the scan ended
EndedSelected == selected_port # None

EndedNoPort == selected_port = None /\ (pc = "check" \/ Last(trace) = "Failed")

EndedFatal == selected_port = None /\ pc = "done" /\ Last(trace) = "Fatal"

C16_Bounded ==
    /\ ProbedOncePerFamily
    /\ PORT <= MAX_PORT => Len(probes) <= 2 * (MAX_PORT - PORT + 1)
    /\ PORT > MAX_PORT => Len(probes) = 0
    /\ ScanEnded =>
          /\ EndedSelected \/ EndedNoPort \/ EndedFatal
          /\ ~(EndedNoPort /\ EndedFatal)
          /\ PORT > MAX_PORT => EndedNoPort

\* C16: the probing phase always terminates: each port of [PORT, MAX_PORT]
\* is probed at most once per family, a run makes at most
\* 2 * (MAX_PORT - PORT + 1) probes and the scan then ends in exactly one of:
\* port selected, NoPortAvailable, fatal error; an empty range makes no
\* probe and ends in NoPortAvailable.
C16_ProbingTerminates == []C16_Bounded /\ <>ScanEnded

\* the scan ended in NoPortAvailable after probing every port under both families
C16_Witness ==
    /\ pc = "done"
    /\ EndedNoPort
    /\ PORT < MAX_PORT
    /\ Len(probes) = (MAX_PORT - PORT + 1) + 1

\* ------------------------------------------------------------------ C17
\* the sockets the process has open
OpenSockets == sockets \cup unclosed

\* C17: at most one socket opened by the program is open at any time, and
\* when the scan has finished no probe socket is open, on every exit path.
C17_ProbeSocketsReleased ==
    /\ Cardinality(OpenSockets) <= 1
    /\ ScanEnded => OpenSockets \subseteq {httpd}

\* ------------------------------------------------------------------ C18
\* C18: whenever the scan has ended with selected_port set, use_dual_stack
\* is assigned, and it is True exactly when the successful probe was a
\* dual-stack probe and False exactly when it was an IPv4 probe; the serve
\* phase never reads an unassigned flag.
C18_FlagMatchesProbe ==
    /\ (ScanEnded /\ selected_port # None) =>
          /\ use_dual_stack \in {"True", "False"}
          /\ Last(probes).result = "ok"
          /\ Last(probes).port = selected_port
          /\ use_dual_stack = "True" <=> Last(probes).family = "dual"
          /\ use_dual_stack = "False" <=> Last(probes).family = "ipv4"
    /\ InServePhase => use_dual_stack # "unset"

\* the serve-time bind reads the flag after a dual-stack probe succeeded above PORT
C18_Witness ==
    /\ pc = "bind"
    /\ selected_port > PORT
    /\ use_dual_stack = "True"
    /\ Last(probes) = [family |-> "dual", host |-> "::", port |-> selected_port, result |-> "ok"]
====
